---- MODULE Spec2Model ----
(***************************************************************************)
(* Model of openapi.stoneg.py: the translation of a Stone API (namespaces, *)
(* data types, routes) into OpenAPI 3.0 documents.                         *)
(*                                                                         *)
(* Encoding.  A Python str that is computed or comes from the API model is *)
(* a sequence of one-character strings, so that formatting, escaping and   *)
(* JSON-Pointer decoding are real computations.  The fixed words of the    *)
(* OpenAPI vocabulary (dictionary keys such as "type", values such as      *)
(* "object") are TLA+ strings.  A Python dict is a function on its keys;   *)
(* a key that was never set is not in the DOMAIN.  An Optional value is a  *)
(* sequence of length 0 (None) or 1.  A raised exception is the record     *)
(* Raise(kind), which every caller hands on unchanged.                     *)
(***************************************************************************)
EXTENDS Integers, Sequences, FiniteSets, TLC

VARIABLES pc, cur, typ, route, out, api, idx, files, err

vars == <<pc, cur, typ, route, out, api, idx, files, err>>

-----------------------------------------------------------------------------
(* Bounds of the model *)

MaxNamespaces == 2
MaxFields == 2
MaxSubtypes == 2
MaxConstraint == 1
MaxVersion == 2
MaxRoutes == 2

-----------------------------------------------------------------------------
(* Strings *)

DigitChar(d) ==
    CASE d = 0 -> "0" [] d = 1 -> "1" [] d = 2 -> "2" [] d = 3 -> "3"
      [] d = 4 -> "4" [] d = 5 -> "5" [] d = 6 -> "6" [] d = 7 -> "7"
      [] d = 8 -> "8" [] d = 9 -> "9"

RECURSIVE Decimal(_)
Decimal(n) ==
    IF n < 10 THEN <<DigitChar(n)>>
    ELSE Decimal(n \div 10) \o <<DigitChar(n % 10)>>

None == <<>>
Some(v) == <<v>>

NsName(i) == <<"n">> \o Decimal(i)
FieldName(i) == <<"f">> \o Decimal(i)
TagName(i) == <<"t">> \o Decimal(i)

NsNames == {NsName(i) : i \in 1..MaxNamespaces}

StrYamlSchemas ==
    <<".", "y", "a", "m", "l", "#", "/", "c", "o", "m", "p", "o", "n", "e",
      "n", "t", "s", "/", "s", "c", "h", "e", "m", "a", "s", "/">>
StrYamlPaths ==
    <<".", "y", "a", "m", "l", "#", "/", "p", "a", "t", "h", "s", "/">>
StrTag == <<".", "t", "a", "g">>
StrFile == <<"f", "i", "l", "e">>
StrError == <<"e", "r", "r", "o", "r">>
StrErrorSummary ==
    <<"e", "r", "r", "o", "r", "_", "s", "u", "m", "m", "a", "r", "y">>

-----------------------------------------------------------------------------
(* stone.ir.data_types, as far as the backend reads them *)

NumericKinds == {"Float32", "Float64", "Int32", "Int64", "UInt32", "UInt64"}

Boolean == [kind |-> "Boolean"]
Numeric(k, mn, mx) == [kind |-> k, min_value |-> mn, max_value |-> mx]
String(mn, mx) == [kind |-> "String", min_length |-> mn, max_length |-> mx]
Timestamp == [kind |-> "Timestamp"]
Void == [kind |-> "Void"]
List(t, mn, mx) ==
    [kind |-> "List", data_type |-> t, min_items |-> mn, max_items |-> mx]
Nullable(t) == [kind |-> "Nullable", data_type |-> t]
Struct(d, n, fs, p, subs) ==
    [kind |-> "Struct", namespace |-> d, name |-> n, fields |-> fs,
     parent_type |-> p, subtypes |-> subs]
Union(d, n, fs) ==
    [kind |-> "Union", namespace |-> d, name |-> n, all_fields |-> fs]
\* A DataType that type_to_schema_def has no case for.
Bytes == [kind |-> "Bytes"]
Field(n, t) == [name |-> n, data_type |-> t]

IsUserDefined(t) == t.kind \in {"Struct", "Union"}

-----------------------------------------------------------------------------
(* Exceptions *)

Raise(k) == [raise |-> "ValueError", unsupported |-> k]
IsError(x) == "raise" \in DOMAIN x

Min(S) == CHOOSE m \in S : \A n \in S : m <= n

\* The outcome of evaluating rs[1], rs[2], ... in order: the first exception
\* raised, or None.
FirstError(rs) ==
    LET bad == {i \in 1..Len(rs) : IsError(rs[i])}
    IN  IF bad = {} THEN None ELSE Some(rs[Min(bad)])

-----------------------------------------------------------------------------
(* TypeSchemaTranslator *)

Ref(target) == "$ref" :> target

WithOpt(schema, key, opt) ==
    IF opt # None THEN schema @@ (key :> opt[1]) ELSE schema

NumericBase(k) ==
    CASE k = "Float32" -> [type |-> "number", format |-> "float"]
      [] k = "Float64" -> [type |-> "number", format |-> "double"]
      [] k = "Int32" -> [type |-> "integer", format |-> "int32"]
      [] k = "Int64" -> [type |-> "integer", format |-> "int64"]
      [] k = "UInt32" -> [type |-> "integer", format |-> "uint64"]
      [] k = "UInt64" -> [type |-> "integer", format |-> "uint64"]

_numeric_to_schema_def(t) ==
    WithOpt(WithOpt(NumericBase(t.kind), "minimum", t.min_value),
            "maximum", t.max_value)

_string_to_schema_def(t) ==
    WithOpt(WithOpt([type |-> "string"], "minLength", t.min_length),
            "maxLength", t.max_length)

_timestamp_to_schema_def(t) == [type |-> "string"]

RECURSIVE type_to_schema_decl(_, _), type_to_schema_def(_, _)

_list_to_schema_def(namespace, t) ==
    LET items == type_to_schema_decl(namespace, t.data_type)
    IN  IF IsError(items) THEN items
        ELSE WithOpt(WithOpt([type |-> "array", items |-> items],
                             "minItems", t.min_items),
                     "maxItems", t.max_items)

_nullable_to_schema_def(namespace, t) ==
    LET inner == type_to_schema_decl(namespace, t.data_type)
    IN  IF IsError(inner) THEN inner
        ELSE [allOf |-> <<inner>>, nullable |-> TRUE]

\* {f.name: type_to_schema_decl(namespace, f.data_type) for f in fs}, the
\* declarations given as decls; a later field of the same name overwrites.
Properties(fs, decls) ==
    [n \in {fs[i].name : i \in 1..Len(fs)} |->
        LET last == CHOOSE i \in 1..Len(fs) :
                        /\ fs[i].name = n
                        /\ \A j \in 1..Len(fs) : fs[j].name = n => j <= i
        IN  decls[last]]

\* [f.name for f in fs if not isinstance(f.data_type, data_types.Nullable)]
RECURSIVE Required(_)
Required(fs) ==
    IF fs = <<>> THEN <<>>
    ELSE (IF Head(fs).data_type.kind # "Nullable"
          THEN <<Head(fs).name>> ELSE <<>>) \o Required(Tail(fs))

\* _struct_to_schema_def with lines 99-102 left out: the parent is dropped.
_struct_to_schema_def_drops_parent(namespace, t) ==
    LET decls == [i \in 1..Len(t.fields) |->
                    type_to_schema_decl(namespace, t.fields[i].data_type)]
        failed == FirstError(decls)
        own == [type |-> "object",
                properties |-> Properties(t.fields, decls),
                required |-> Required(t.fields)]
    IN  IF failed # None THEN failed[1]
        ELSE IF Len(t.subtypes) > 0
        THEN [type |-> "object",
              properties |->
                  (StrFile :>
                      type_to_schema_decl(namespace, t.subtypes[1].data_type)),
              required |-> <<StrFile>>]
        ELSE own

_struct_to_schema_def(namespace, t) ==
    LET decls == [i \in 1..Len(t.fields) |->
                    type_to_schema_decl(namespace, t.fields[i].data_type)]
        failed == FirstError(decls)
        own == [type |-> "object",
                properties |-> Properties(t.fields, decls),
                required |-> Required(t.fields)]
        schema == IF t.parent_type # None
                  THEN own @@ ("allOf" :>
                         <<type_to_schema_decl(namespace, t.parent_type[1])>>)
                  ELSE own
    IN  IF failed # None THEN failed[1]
        ELSE IF Len(t.subtypes) > 0
        THEN [type |-> "object",
              properties |->
                  (StrFile :>
                      type_to_schema_decl(namespace, t.subtypes[1].data_type)),
              required |-> <<StrFile>>]
        ELSE schema

\* [... for variant in fs if not isinstance(variant.data_type, Void)], fs and
\* the variants' declarations side by side.
RECURSIVE OneOfVariants(_, _)
OneOfVariants(fs, decls) ==
    IF fs = <<>> THEN <<>>
    ELSE (IF Head(fs).data_type.kind # "Void"
          THEN <<[type |-> "object",
                  properties |-> (Head(fs).name :> Head(decls)),
                  required |-> <<Head(fs).name>>]>>
          ELSE <<>>) \o OneOfVariants(Tail(fs), Tail(decls))

\* _union_to_schema_def with the filter of line 160 left out: Void variants
\* get a oneOf member too.
_union_to_schema_def_keeps_void(namespace, t) ==
    LET schema == [type |-> "object",
                   properties |-> (StrTag :> [type |-> "string"]),
                   required |-> <<StrTag>>]
        fs == t.all_fields
        nonvoid == {i \in 1..Len(fs) : fs[i].data_type.kind # "Void"}
        decls == [i \in 1..Len(fs) |->
                    type_to_schema_decl(namespace, fs[i].data_type)]
        failed == FirstError(decls)
    IN  IF nonvoid = {} THEN schema
        ELSE IF failed # None THEN failed[1]
        ELSE schema @@ [oneOf |->
                            [i \in 1..Len(fs) |->
                                [type |-> "object",
                                 properties |-> (fs[i].name :> decls[i]),
                                 required |-> <<fs[i].name>>]],
                        discriminator |-> [propertyName |-> StrTag]]

_union_to_schema_def(namespace, t) ==
    LET schema == [type |-> "object",
                   properties |-> (StrTag :> [type |-> "string"]),
                   required |-> <<StrTag>>]
        fs == t.all_fields
        nonvoid == {i \in 1..Len(fs) : fs[i].data_type.kind # "Void"}
        \* Void variants are filtered out before their type is translated.
        decls == [i \in 1..Len(fs) |->
                    IF i \in nonvoid
                    THEN type_to_schema_decl(namespace, fs[i].data_type)
                    ELSE <<>>]
        failed == FirstError(decls)
    IN  IF nonvoid = {} THEN schema
        ELSE IF failed # None THEN failed[1]
        ELSE schema @@ [oneOf |-> OneOfVariants(fs, decls),
                        discriminator |-> [propertyName |-> StrTag]]

type_to_schema_decl(namespace, t) ==
    IF IsUserDefined(t)
    THEN Ref(t.namespace \o StrYamlSchemas \o t.name)
    ELSE type_to_schema_def(namespace, t)

type_to_schema_def(namespace, t) ==
    CASE t.kind = "Boolean" -> [type |-> "boolean"]
      [] t.kind \in NumericKinds -> _numeric_to_schema_def(t)
      [] t.kind = "List" -> _list_to_schema_def(namespace, t)
      [] t.kind = "String" -> _string_to_schema_def(t)
      [] t.kind = "Timestamp" -> _timestamp_to_schema_def(t)
      [] t.kind = "Void" -> <<>>
      [] t.kind = "Nullable" -> _nullable_to_schema_def(namespace, t)
      [] t.kind = "Struct" -> _struct_to_schema_def(namespace, t)
      [] t.kind = "Union" -> _union_to_schema_def(namespace, t)
      [] OTHER -> Raise(t.kind)

-----------------------------------------------------------------------------
(* RouteTranslator *)

\* type_to_schema_decl(namespace, t) where the code guards the call with
\* "t is not None and not isinstance(t, data_types.Void)"; None when the
\* guard fails and the call is not made.
GuardedDecl(namespace, opt) ==
    IF opt # None /\ opt[1].kind # "Void"
    THEN Some(type_to_schema_decl(namespace, opt[1]))
    ELSE None

JsonContent(schema) == "application/json" :> [schema |-> schema]

route_to_path(namespace, r) ==
    LET arg == GuardedDecl(namespace, r.arg_data_type)
        res == GuardedDecl(namespace, r.result_data_type)
        error == GuardedDecl(namespace, r.error_data_type)
        failed == FirstError(arg \o res \o error)
        \* route.doc or ""
        description == IF r.doc # None THEN r.doc[1] ELSE <<>>
        body == IF arg # None
                THEN [requestBody |->
                        [required |-> TRUE, content |-> JsonContent(arg[1])]]
                ELSE <<>>
        ok == [description |-> <<>>,
               content |-> IF res # None THEN JsonContent(res[1]) ELSE <<>>]
        conflict ==
            [description |-> <<>>,
             content |->
                IF error # None
                THEN JsonContent(
                        [type |-> "object",
                         properties |->
                            (StrError :> error[1])
                            @@ (StrErrorSummary :> [type |-> "string"])])
                ELSE <<>>]
    IN  IF failed # None THEN failed[1]
        ELSE [post |->
                [description |-> description,
                 responses |-> ("200" :> ok) @@ ("409" :> conflict)]
                @@ body]

route_name_to_path_name(namespace_name, route_name, route_version) ==
    LET base_path == <<"/">> \o namespace_name \o <<"/">> \o route_name
    IN  IF route_version = 1 THEN base_path
        ELSE base_path \o <<"_", "v">> \o Decimal(route_version)

-----------------------------------------------------------------------------
(* NamespaceSpecAssembler *)

\* The dict comprehension over the routes, in iteration order: a later route
\* with the same key overwrites an earlier one.
Paths(namespace, items) ==
    LET key(i) == route_name_to_path_name(namespace.name, namespace.routes[i].name,
                                          namespace.routes[i].version)
        n == Len(namespace.routes)
    IN  [k \in {key(i) : i \in 1..n} |->
            LET last == CHOOSE i \in 1..n :
                            /\ key(i) = k
                            /\ \A j \in 1..n : key(j) = k => j <= i
            IN  items[last]]

namespace_to_spec(namespace) ==
    LET items == [i \in 1..Len(namespace.routes) |->
                    route_to_path(namespace.name, namespace.routes[i])]
        defs == [i \in 1..Len(namespace.data_types) |->
                    type_to_schema_def(namespace.name,
                                       namespace.data_types[i].data_type)]
        failed == FirstError(items \o defs)
    IN  IF failed # None THEN failed[1]
        ELSE [openapi |-> "3.0.0",
              info |-> [title |-> namespace.name, version |-> "0.1.0"],
              paths |-> Paths(namespace, items),
              components |->
                [schemas |-> Properties(namespace.data_types, defs)]]

-----------------------------------------------------------------------------
(* MasterSpecAssembler *)

\* path.replace('/', '~1', 1): only the first "/" is replaced.
escape_path_first_only(path) ==
    IF \A i \in 1..Len(path) : path[i] # "/" THEN path
    ELSE LET at == Min({i \in 1..Len(path) : path[i] = "/"})
         IN  SubSeq(path, 1, at - 1) \o <<"~", "1">>
             \o SubSeq(path, at + 1, Len(path))

RECURSIVE escape_path(_)
escape_path(path) ==
    IF path = <<>> THEN <<>>
    ELSE (IF Head(path) = "/" THEN <<"~", "1">> ELSE <<Head(path)>>)
         \o escape_path(Tail(path))

\* The (namespace, route_name, route_version) triples of the master's dict
\* comprehension, in iteration order, each with its path name.
RECURSIVE MasterEntries(_)
MasterEntries(a) ==
    IF a = <<>> THEN <<>>
    ELSE [j \in 1..Len(Head(a).routes) |->
            [namespace |-> Head(a).name,
             key |-> route_name_to_path_name(Head(a).name,
                                             Head(a).routes[j].name,
                                             Head(a).routes[j].version)]]
         \o MasterEntries(Tail(a))

MasterPaths(a) ==
    LET es == MasterEntries(a)
    IN  [k \in {es[i].key : i \in 1..Len(es)} |->
            LET last == CHOOSE i \in 1..Len(es) :
                            /\ es[i].key = k
                            /\ \A j \in 1..Len(es) : es[j].key = k => j <= i
            IN  Ref(es[last].namespace \o StrYamlPaths
                    \o escape_path(es[last].key))]

MasterSpec(a) ==
    [openapi |-> "3.0.0",
     info |-> [title |-> "Dropbox APIv2", version |-> "0.1.0"],
     servers |-> <<[url |-> "https://api.dropbox.com/2"]>>,
     paths |-> MasterPaths(a),
     components |->
        [securitySchemes |->
            [oauth2 |->
                [type |-> "oauth2",
                 flows |->
                    [authorizationCode |->
                        [authorizationUrl |->
                            "https://www.dropbox.com/oauth2/authorize",
                         tokenUrl |-> "https://api.dropboxapi.com/oauth2/token",
                         scopes |-> <<>>]]]]],
     security |-> <<[oauth2 |-> <<>>]>>]

-----------------------------------------------------------------------------
(* OpenApiBackend.generate: the files under spec/ *)

StrSpecDir == <<"s", "p", "e", "c", "/">>
StrYaml == <<".", "y", "a", "m", "l">>
StrMaster == <<"_", "m", "a", "s", "t", "e", "r">>

NamespaceFile(name) == StrSpecDir \o name \o StrYaml
MasterFile == StrSpecDir \o StrMaster \o StrYaml

\* A file that open(..., "w") has created or truncated and nothing was
\* dumped into yet.
EmptyFile == <<>>

\* open(path, "w")
Open(fs, path) ==
    IF path \in DOMAIN fs THEN [fs EXCEPT ![path] = EmptyFile]
    ELSE fs @@ (path :> EmptyFile)

Idle == <<>>

\* for namespace in api.namespaces.values(): with open(...) as f:
OpenNamespace ==
    /\ pc = "open"
    /\ idx <= Len(api)
    /\ files' = Open(files, NamespaceFile(api[idx].name))
    /\ pc' = "dump"
    /\ UNCHANGED <<cur, typ, route, out, api, idx, err>>

\* yaml.dump(namespace_to_spec(namespace), f), the translation succeeding
DumpNamespace ==
    /\ pc = "dump"
    /\ LET doc == namespace_to_spec(api[idx])
       IN  /\ ~IsError(doc)
           /\ files' = [files EXCEPT ![NamespaceFile(api[idx].name)] = doc]
    /\ idx' = idx + 1
    /\ pc' = "open"
    /\ UNCHANGED <<cur, typ, route, out, api, err>>

\* namespace_to_spec(namespace) raising: the exception leaves generate
RaiseNamespace ==
    /\ pc = "dump"
    /\ LET doc == namespace_to_spec(api[idx])
       IN  /\ IsError(doc)
           /\ err' = Some(doc)
    /\ pc' = "raised"
    /\ UNCHANGED <<cur, typ, route, out, api, idx, files>>

\* with open("spec/_master.yaml", "w") as f:
OpenMaster ==
    /\ pc = "open"
    /\ idx > Len(api)
    /\ files' = Open(files, MasterFile)
    /\ pc' = "dump_master"
    /\ UNCHANGED <<cur, typ, route, out, api, idx, err>>

\* yaml.dump(oa.OpenAPIObject(...), f)
DumpMaster ==
    /\ pc = "dump_master"
    /\ files' = [files EXCEPT ![MasterFile] = MasterSpec(api)]
    /\ pc' = "done"
    /\ UNCHANGED <<cur, typ, route, out, api, idx, err>>

-----------------------------------------------------------------------------
(* The API models: the types, routes and APIs the backend is run on *)

Opt == {None} \cup {Some(v) : v \in 0..MaxConstraint}

PlainString == String(None, None)
\* A user-defined type as a field, element or route type refers to it: the
\* backend reads only its namespace and name there.
RefStruct(d) == Struct(d, <<"M">>, <<>>, None, <<>>)
RefUnion(d) == Union(d, <<"U">>, <<>>)

ElemTypes ==
    {PlainString, Boolean, Bytes, RefStruct(NsName(1)),
     List(PlainString, None, None), List(Bytes, None, None)}

FieldTypes ==
    {PlainString, Nullable(PlainString), Bytes, RefStruct(NsName(1)),
     Nullable(RefUnion(NsName(1)))}

VariantTypes ==
    {Void, PlainString, Bytes, RefStruct(NsName(1)), Nullable(PlainString)}

\* Field lists of up to MaxFields fields, the i-th named FieldName(i).
FieldLists(types) ==
    UNION {{[i \in 1..n |-> Field(FieldName(i), f[i])] : f \in [1..n -> types]} :
            n \in 0..MaxFields}

\* Enumerated subtypes: the i-th tagged TagName(i), carrying a struct of
\* namespace d that extends the base b of that namespace.
SubtypeLists(d, b) ==
    {[i \in 1..n |->
        Field(TagName(i),
              Struct(d, <<"S">> \o Decimal(i), <<>>,
                     Some(Struct(d, b, <<>>, None, <<>>)), <<>>))] :
     n \in 0..MaxSubtypes}

\* The structs, unions and types of the namespaces called names.
Structs(names) ==
    UNION {{Struct(d, <<"T">>, fs, p, subs) :
                fs \in FieldLists(FieldTypes),
                p \in {None} \cup {Some(RefStruct(e)) : e \in names},
                subs \in SubtypeLists(d, <<"T">>)} :
            d \in names}

Unions(names) ==
    {Union(d, <<"V">>, fs) : d \in names, fs \in FieldLists(VariantTypes)}

Types(names) ==
    {Boolean, Timestamp, Void, Bytes}
    \cup {Numeric(k, mn, mx) : k \in NumericKinds, mn \in Opt, mx \in Opt}
    \cup {String(mn, mx) : mn \in Opt, mx \in Opt}
    \cup {List(e, mn, mx) : e \in ElemTypes, mn \in Opt, mx \in Opt}
    \cup {Nullable(e) : e \in ElemTypes}
    \cup Structs(names) \cup Unions(names)

\* The result and error types of a route are always set (Void when the
\* route declares none); the argument type may also be absent.
RouteTypes ==
    {Some(Void), Some(PlainString), Some(Bytes),
     Some(RefStruct(NsName(1))), Some(Nullable(RefUnion(NsName(1))))}

Docs == {None, Some(<<>>), Some(<<"d">>)}

Route(n, v, a, r, e, d) ==
    [name |-> n, version |-> v, arg_data_type |-> a, result_data_type |-> r,
     error_data_type |-> e, doc |-> d]

Routes ==
    {Route(<<"u">>, 1, a, r, e, d) :
        a \in RouteTypes \cup {None}, r \in RouteTypes, e \in RouteTypes,
        d \in Docs}

\* Route names of the generated APIs.  Stone route names are identifiers that
\* may hold "/" and "_": "u_v2" is a route of its own, like Dropbox's
\* pre-versioning copy_v2.
RouteNames == <<<<"u">>, <<"u", "_", "v", "2">>, <<"a", "/", "u">>>>

\* The route called RouteNames[r] at version v in namespace d.
RouteAt(d, r, v) ==
    CASE r = 1 -> Route(RouteNames[r], v, Some(RefStruct(d)),
                        Some(RefStruct(d)), Some(RefUnion(d)), Some(<<"d">>))
      [] r = 2 -> Route(RouteNames[r], v, Some(Void), Some(Void), Some(Void),
                        None)
      [] OTHER -> Route(RouteNames[r], v, Some(PlainString),
                        Some(List(PlainString, None, None)), Some(Void), None)

\* The (route name, version) pairs a namespace may hold, in the order the
\* namespace iterates them: RouteNames[1] at every version, the other names
\* at version 1.
RouteKeys ==
    [v \in 1..MaxVersion |-> <<1, v>>]
    \o [r \in 1..(Len(RouteNames) - 1) |-> <<r + 1, 1>>]

RECURSIVE SubsetsUpTo(_, _)
SubsetsUpTo(S, k) ==
    IF k = 0 THEN {{}}
    ELSE LET prev == SubsetsUpTo(S, k - 1)
         IN  prev \cup {T \cup {x} : T \in prev, x \in S}

\* The i-th namespace of an API whose routes are the triples rs (namespace
\* index, route name index, version); the namespace numbered bad declares a
\* struct with a Bytes field.
Namespace(i, rs, bad) ==
    LET mine == SelectSeq(RouteKeys, LAMBDA k : <<i, k[1], k[2]>> \in rs)
    IN  [name |-> NsName(i),
         routes |-> [j \in 1..Len(mine) |->
                        RouteAt(NsName(i), mine[j][1], mine[j][2])],
         data_types |->
            <<Field(<<"M">>,
                    Struct(NsName(i), <<"M">>,
                           <<Field(FieldName(1),
                                   IF bad = i THEN Bytes ELSE PlainString)>>,
                           None, <<>>)),
              Field(<<"U">>,
                    Union(NsName(i), <<"U">>,
                          <<Field(FieldName(1), Void),
                            Field(FieldName(2), RefStruct(NsName(i)))>>))>>]

\* The APIs of up to m namespaces and up to MaxRoutes routes in all.
Apis(m) ==
    UNION {{[i \in 1..n |-> Namespace(i, rs, bad)] :
                rs \in SubsetsUpTo(
                        {<<i, RouteKeys[k][1], RouteKeys[k][2]>> :
                            i \in 1..n, k \in 1..Len(RouteKeys)},
                        MaxRoutes),
                bad \in 0..n} :
            n \in 1..m}

-----------------------------------------------------------------------------
(* Specifications *)

\* One call of the type translator on one type.
InitSchema ==
    /\ pc = "ready"
    /\ cur \in NsNames
    /\ typ \in Types(NsNames)
    /\ out = Idle
    /\ route = Idle /\ api = Idle /\ idx = 0 /\ files = Idle /\ err = None

CallDecl ==
    /\ pc = "ready"
    /\ out' = type_to_schema_decl(cur, typ)
    /\ pc' = "decl"
    /\ UNCHANGED <<cur, typ, route, api, idx, files, err>>

CallDef ==
    /\ pc = "ready"
    /\ out' = type_to_schema_def(cur, typ)
    /\ pc' = "def"
    /\ UNCHANGED <<cur, typ, route, api, idx, files, err>>

NextSchema == CallDecl \/ CallDef

SpecSchema == InitSchema /\ [][NextSchema]_vars

\* One call of route_to_path on one route.
InitRoute ==
    /\ pc = "ready"
    /\ cur \in NsNames
    /\ route \in Routes
    /\ out = Idle
    /\ typ = Idle /\ api = Idle /\ idx = 0 /\ files = Idle /\ err = None

CallRoute ==
    /\ pc = "ready"
    /\ out' = route_to_path(cur, route)
    /\ pc' = "route"
    /\ UNCHANGED <<cur, typ, route, api, idx, files, err>>

CallPathName ==
    /\ pc = "ready"
    /\ \E v \in 1..MaxVersion :
        out' = route_name_to_path_name(cur, route.name, v)
    /\ pc' = "path_name"
    /\ UNCHANGED <<cur, typ, route, api, idx, files, err>>

NextRoute == CallRoute \/ CallPathName

SpecRoute == InitRoute /\ [][NextRoute]_vars

\* One run of OpenApiBackend.generate on one API, spec/ empty before it.
InitGenerate ==
    /\ pc = "open"
    /\ api \in Apis(MaxNamespaces)
    /\ idx = 1
    /\ files = <<>>
    /\ err = None
    /\ cur = Idle /\ typ = Idle /\ route = Idle /\ out = Idle

NextGenerate ==
    \/ OpenNamespace
    \/ DumpNamespace
    \/ RaiseNamespace
    \/ OpenMaster
    \/ DumpMaster

SpecGenerate == InitGenerate /\ [][NextGenerate]_vars

-----------------------------------------------------------------------------
(* Properties *)

ToSet(seq) == {seq[i] : i \in 1..Len(seq)}

StrLocalSchemas ==
    <<"#", "/", "c", "o", "m", "p", "o", "n", "e", "n", "t", "s", "/",
      "s", "c", "h", "e", "m", "a", "s", "/">>

\* C1: the declaration of a named user-defined type T of namespace D, taken
\* in namespace N, is the single-key object {"$ref": r} with
\* r = "#/components/schemas/<T>" when D = N and
\* r = "<D>.yaml#/components/schemas/<T>" when D # N.
C1_RefLocalOrQualified ==
    (pc = "decl" /\ IsUserDefined(typ)) =>
        /\ DOMAIN out = {"$ref"}
        /\ out["$ref"] = IF typ.namespace = cur
                         THEN StrLocalSchemas \o typ.name
                         ELSE typ.namespace \o StrYamlSchemas \o typ.name

\* The (type, format) table of the numeric kinds.
NumericTable(k) ==
    CASE k = "Float32" -> <<"number", "float">>
      [] k = "Float64" -> <<"number", "double">>
      [] k = "Int32" -> <<"integer", "int32">>
      [] k = "Int64" -> <<"integer", "int64">>
      [] k = "UInt32" -> <<"integer", "uint32">>
      [] k = "UInt64" -> <<"integer", "uint64">>

\* C2: the schema of a numeric type has the (type, format) pair of the table,
\* the key minimum iff min_value is set, and the key maximum iff max_value is set.
C2_NumericTable ==
    (pc = "def" /\ typ.kind \in NumericKinds) =>
        /\ <<out.type, out.format>> = NumericTable(typ.kind)
        /\ ("minimum" \in DOMAIN out) <=> (typ.min_value # None)
        /\ ("maximum" \in DOMAIN out) <=> (typ.max_value # None)

NonNullableNames(fs) ==
    {fs[i].name : i \in {j \in 1..Len(fs) : fs[j].data_type.kind # "Nullable"}}

\* C3: the schema of a struct (with or without a parent, with or without
\* enumerated subtypes) carries a required list that is, as a set, the names
\* of the fields whose declared type is not Nullable.
C3_RequiredIsNonNullable ==
    (pc = "def" /\ typ.kind = "Struct" /\ ~IsError(out)) =>
        /\ "required" \in DOMAIN out
        /\ ToSet(out.required) = NonNullableNames(typ.fields)

Present(opt) == opt # None /\ opt[1].kind # "Void"

\* C4: the PathItem of a route has the single operation post, with the key
\* requestBody iff the argument type is present and not Void, a content key in
\* the 200 response iff the result type is not Void, and a content key in the
\* 409 response iff the error type is not Void.
C4_ContentIffNotVoid ==
    (pc = "route" /\ ~IsError(out)) =>
        /\ DOMAIN out = {"post"}
        /\ ("requestBody" \in DOMAIN out.post) <=> Present(route.arg_data_type)
        /\ ("content" \in DOMAIN out.post.responses["200"])
                <=> Present(route.result_data_type)
        /\ ("content" \in DOMAIN out.post.responses["409"])
                <=> Present(route.error_data_type)

IsDocument(fs, path) == path \in DOMAIN fs /\ DOMAIN fs[path] # {}

\* C5: the paths of a namespace document hold one entry per
\* (route_name, version) pair of the namespace, under its path name: as many
\* entries as pairs.
C5_OnePathPerRoute ==
    \A i \in 1..Len(api) :
        IsDocument(files, NamespaceFile(api[i].name)) =>
            LET paths == files[NamespaceFile(api[i].name)].paths
            IN  /\ \A j \in 1..Len(api[i].routes) :
                       route_name_to_path_name(api[i].name, api[i].routes[j].name,
                                               api[i].routes[j].version)
                           \in DOMAIN paths
                /\ Cardinality(DOMAIN paths) = Len(api[i].routes)

\* C6: when an unsupported type makes generate fail, the error names the
\* type and no document has been emitted: no namespace file and no
\* _master.yaml holds one.
C6_NoOutputOnError ==
    (pc = "raised") =>
        /\ err[1].unsupported = "Bytes"
        /\ \A f \in DOMAIN files : ~IsDocument(files, f)

\* seq cut at every sep: the tokens between the separators.
RECURSIVE Split(_, _)
Split(seq, sep) ==
    IF \A i \in 1..Len(seq) : seq[i] # sep THEN <<seq>>
    ELSE LET at == Min({i \in 1..Len(seq) : seq[i] = sep})
         IN  <<SubSeq(seq, 1, at - 1)>> \o Split(SubSeq(seq, at + 1, Len(seq)), sep)

\* A JSON-Pointer reference token decoded (RFC 6901): ~1 is /, ~0 is ~.
RECURSIVE Unescape(_)
Unescape(tok) ==
    IF tok = <<>> THEN <<>>
    ELSE IF Len(tok) >= 2 /\ tok[1] = "~" /\ tok[2] = "1"
    THEN <<"/">> \o Unescape(SubSeq(tok, 3, Len(tok)))
    ELSE IF Len(tok) >= 2 /\ tok[1] = "~" /\ tok[2] = "0"
    THEN <<"~">> \o Unescape(SubSeq(tok, 3, Len(tok)))
    ELSE <<Head(tok)>> \o Unescape(Tail(tok))

\* The reference ref, read from the master document, leads to the entry key of
\* the paths of the document of namespace name: its file part is <name>.yaml
\* and its pointer is /paths/<token>, the token decoding to key.
ResolvesToPath(fs, ref, name, key) ==
    LET parts == Split(ref, "#")
    IN  /\ Len(parts) = 2
        /\ parts[1] = name \o StrYaml
        /\ LET toks == Split(parts[2], "/")
           IN  /\ Len(toks) = 3
               /\ toks[1] = <<>>
               /\ toks[2] = <<"p", "a", "t", "h", "s">>
               \* every "/" of the key stands as ~1: each ~ is followed by 1
               /\ \A p \in 1..Len(toks[3]) :
                    toks[3][p] = "~" => (p < Len(toks[3]) /\ toks[3][p + 1] = "1")
               /\ Unescape(toks[3]) = key
        /\ IsDocument(fs, StrSpecDir \o parts[1])
        /\ key \in DOMAIN fs[StrSpecDir \o parts[1]].paths

\* C7: after generate, the master's paths hold, for every (namespace,
\* route_name, version), under the route's path name a single-key object
\* {"$ref": "<namespace>.yaml#/paths/<escaped>"} whose escaped token has no
\* bare "/" and decodes by the JSON-Pointer rules to a key of that namespace
\* document's paths; the master holds nothing but such references.
C7_MasterRefsResolve ==
    (pc = "done") =>
        LET master == files[MasterFile]
        IN  /\ \A i \in 1..Len(api) : \A j \in 1..Len(api[i].routes) :
                LET key == route_name_to_path_name(api[i].name,
                                                   api[i].routes[j].name,
                                                   api[i].routes[j].version)
                IN  /\ key \in DOMAIN master.paths
                    /\ DOMAIN master.paths[key] = {"$ref"}
                    /\ ResolvesToPath(files, master.paths[key]["$ref"],
                                      api[i].name, key)
            /\ \A k \in DOMAIN master.paths :
                \E i \in 1..Len(api) : \E j \in 1..Len(api[i].routes) :
                    k = route_name_to_path_name(api[i].name, api[i].routes[j].name,
                                                api[i].routes[j].version)

\* generate has finished on an API of two namespaces that both have a route,
\* one of them at a version other than 1.
C7_Witness ==
    /\ pc = "done"
    /\ Len(api) = 2
    /\ \A i \in 1..2 : Len(api[i].routes) >= 1
    /\ \E i \in 1..2 : \E j \in 1..Len(api[i].routes) : api[i].routes[j].version # 1

VoidVariants(fs) == {i \in 1..Len(fs) : fs[i].data_type.kind = "Void"}

\* C8: the schema of a union is an object schema with the required string
\* property .tag; when every variant is Void it has neither oneOf nor
\* discriminator; otherwise it has the discriminator .tag and a oneOf in which
\* every non-Void variant appears exactly once, as an object requiring the one
\* property named after it, and no Void variant appears.
C8_UnionSchema ==
    (pc = "def" /\ typ.kind = "Union" /\ ~IsError(out)) =>
        LET fs == typ.all_fields
            void == VoidVariants(fs)
        IN  /\ out.type = "object"
            /\ StrTag \in DOMAIN out.properties
            /\ out.properties[StrTag] = [type |-> "string"]
            /\ StrTag \in ToSet(out.required)
            /\ IF void = 1..Len(fs)
               THEN DOMAIN out \cap {"oneOf", "discriminator"} = {}
               ELSE /\ {"oneOf", "discriminator"} \subseteq DOMAIN out
                    /\ out.discriminator.propertyName = StrTag
                    /\ \A i \in (1..Len(fs)) \ void :
                        Cardinality({j \in 1..Len(out.oneOf) :
                            /\ out.oneOf[j].type = "object"
                            /\ DOMAIN out.oneOf[j].properties = {fs[i].name}
                            /\ out.oneOf[j].required = <<fs[i].name>>}) = 1
                    /\ \A i \in void : \A j \in 1..Len(out.oneOf) :
                        fs[i].name \notin DOMAIN out.oneOf[j].properties
                    /\ Len(out.oneOf) = Len(fs) - Cardinality(void)

\* The schema of a union that has a Void variant and a variant with a payload.
C8_Witness ==
    /\ pc = "def"
    /\ typ.kind = "Union"
    /\ ~IsError(out)
    /\ VoidVariants(typ.all_fields) # {}
    /\ VoidVariants(typ.all_fields) # 1..Len(typ.all_fields)

\* C9: the schema of a struct with enumerated subtypes is the polymorphic
\* envelope: a oneOf of the struct's own object schema and an anyOf that holds,
\* for each subtype exactly once, an object requiring the one property named
\* after the subtype's tag, whose value is the declaration of the subtype's type.
C9_SubtypeEnvelope ==
    (pc = "def" /\ typ.kind = "Struct" /\ Len(typ.subtypes) > 0 /\ ~IsError(out)) =>
        /\ "oneOf" \in DOMAIN out
        /\ Len(out.oneOf) = 2
        /\ "properties" \in DOMAIN out.oneOf[1]
        /\ DOMAIN out.oneOf[1].properties = ToSet([i \in 1..Len(typ.fields) |->
                                                    typ.fields[i].name])
        /\ "anyOf" \in DOMAIN out.oneOf[2]
        /\ Len(out.oneOf[2].anyOf) = Len(typ.subtypes)
        /\ \A i \in 1..Len(typ.subtypes) :
            LET member == out.oneOf[2].anyOf[i]
                tag == typ.subtypes[i].name
            IN  /\ member.type = "object"
                /\ member.required = <<tag>>
                /\ DOMAIN member.properties = {tag}
                /\ member.properties[tag] =
                        type_to_schema_decl(cur, typ.subtypes[i].data_type)

\* The struct's own object schema: its fields' declarations and the names of
\* the fields that are not Nullable.
IsOwnObject(schema, namespace, t) ==
    /\ {"type", "properties", "required"} \subseteq DOMAIN schema
    /\ schema.type = "object"
    /\ DOMAIN schema.properties = ToSet([i \in 1..Len(t.fields) |-> t.fields[i].name])
    /\ \A i \in 1..Len(t.fields) :
        schema.properties[t.fields[i].name] =
            type_to_schema_decl(namespace, t.fields[i].data_type)
    /\ ToSet(schema.required) = NonNullableNames(t.fields)
    /\ Len(schema.required) = Cardinality(NonNullableNames(t.fields))

PlainStruct == pc = "def" /\ typ.kind = "Struct" /\ Len(typ.subtypes) = 0 /\ ~IsError(out)

\* C10 as stated: the schema of a struct without enumerated subtypes that has
\* a parent is a wrapper whose allOf list has exactly two members, the
\* struct's own object schema and the declaration of the parent; without a
\* parent it is the own object schema with no allOf key.
C10_AllOfWrapsOwnAndParent ==
    PlainStruct =>
        IF typ.parent_type # None
        THEN /\ "allOf" \in DOMAIN out
             /\ Len(out.allOf) = 2
             /\ IsOwnObject(out.allOf[1], cur, typ)
             /\ out.allOf[2] = type_to_schema_decl(cur, typ.parent_type[1])
        ELSE /\ IsOwnObject(out, cur, typ)
             /\ "allOf" \notin DOMAIN out

\* C10 amended: the schema of a struct without enumerated subtypes is the
\* struct's own object schema (type object, properties, required); with a
\* parent it carries one more key, allOf, a list of exactly one member, the
\* declaration of the parent; without a parent it has no allOf key.
C10_AllOfHoldsParent ==
    PlainStruct =>
        /\ IsOwnObject(out, cur, typ)
        /\ IF typ.parent_type # None
           THEN /\ DOMAIN out = {"type", "properties", "required", "allOf"}
                /\ out.allOf = <<type_to_schema_decl(cur, typ.parent_type[1])>>
           ELSE DOMAIN out = {"type", "properties", "required"}

\* The schema of a struct with a parent, a Nullable field and a field that is
\* not Nullable, and no enumerated subtypes.
C10_Witness ==
    /\ PlainStruct
    /\ typ.parent_type # None
    /\ NonNullableNames(typ.fields) # {}
    /\ Cardinality(NonNullableNames(typ.fields)) < Len(typ.fields)

====
